---- MODULE Spec2Model ----
(***************************************************************************)
(* Model of tool-get-weather/app.go: the Handler callback of a serverless  *)
(* LLM function-calling tool and its helper requestOpenWeatherMapAPI.      *)
(*                                                                         *)
(* Text is modelled as a sequence of tokens.  The literal chunks of the    *)
(* format string of app.go:60 are single tokens; everything a verb (%f,    *)
(* %s) produces is a sequence of one-character tokens.                     *)
(*                                                                         *)
(* A float64 coordinate is modelled as an integer number of 10^-7 degrees, *)
(* one decimal digit finer than what the verb %f prints.                   *)
(***************************************************************************)
EXTENDS Integers, Sequences, FiniteSets, TLC

VARIABLES env, pc, ctx, p, apiKey, url, resp, err, body, result, trace

vars == <<env, pc, ctx, p, apiKey, url, resp, err, body, result, trace>>

\* ------------------------------------------------------------------ bounds
\* Number of Handler invocations the host may have running at once.
NInv == 2

\* Largest number of body bytes io.ReadAll has read when a read error hits.
MaxPartial == 1

Inv == 1..NInv

\* ------------------------------------------------- fmt.Sprintf and its verbs
Abs(n) == IF n < 0 THEN -n ELSE n

DigitChars == <<"0", "1", "2", "3", "4", "5", "6", "7", "8", "9">>

Pow10(k) == IF k = 0 THEN 1 ELSE IF k = 1 THEN 10 ELSE IF k = 2 THEN 100
            ELSE IF k = 3 THEN 1000 ELSE IF k = 4 THEN 10000
            ELSE IF k = 5 THEN 100000 ELSE IF k = 6 THEN 1000000
            ELSE 10000000

\* The decimal digits of a natural number, most significant first.
RECURSIVE IntDigits(_)
IntDigits(n) == IF n < 10 THEN <<DigitChars[n + 1]>>
                ELSE Append(IntDigits(n \div 10), DigitChars[(n % 10) + 1])

\* Exactly k digits of m, zero padded on the left.
RECURSIVE PadDigits(_, _)
PadDigits(m, k) == IF k = 0 THEN <<>>
                   ELSE Append(PadDigits(m \div 10, k - 1), DigitChars[(m % 10) + 1])

\* The magnitude of v in millionths of a degree, as strconv rounds it for a
\* precision of six: to nearest, an exact tie to the even digit.
RoundMicro(v) ==
  LET a == Abs(v)
      q == a \div 10
      r == a % 10
  IN IF r > 5 \/ (r = 5 /\ q % 2 = 1) THEN q + 1 ELSE q

\* The verb %f (default precision six) applied to a float64.
FmtF(v) ==
  LET m == RoundMicro(v)
  IN (IF v < 0 THEN <<"-">> ELSE <<>>)
       \o IntDigits(m \div 1000000) \o <<".">> \o PadDigits(m % 1000000, 6)

\* The verb %s applied to a string: the string itself, nothing escaped.
FmtS(s) == s

\* fmt.Sprintf: literal chunks are copied, each verb consumes the next operand.
RECURSIVE Sprintf(_, _)
Sprintf(format, args) ==
  IF format = <<>> THEN <<>>
  ELSE IF Head(format) = "%f"
       THEN FmtF(Head(args)) \o Sprintf(Tail(format), Tail(args))
  ELSE IF Head(format) = "%s"
       THEN FmtS(Head(args)) \o Sprintf(Tail(format), Tail(args))
  ELSE <<Head(format)>> \o Sprintf(Tail(format), args)

\* const apiURL of requestOpenWeatherMapAPI.
apiURL == << "https://api.openweathermap.org/data/2.5/weather?lat=", "%f",
             "&lon=", "%f", "&appid=", "%s", "&units=metric" >>

\* The fixed string both error branches return.
Fallback == <<"can not get the weather information at the moment">>


\* ------------------------------------------------------- reading a URL back
IndexOf(s, tok) == CHOOSE k \in 1..Len(s) : s[k] = tok /\ \A j \in 1..(k - 1) : s[j] # tok

Has(s, tok) == \E k \in 1..Len(s) : s[k] = tok

\* The tokens of s strictly between the literal chunks from and to.
Between(s, from, to) == SubSeq(s, IndexOf(s, from) + 1, IndexOf(s, to) - 1)

LatParam(u) == Between(u, apiURL[1], "&lon=")
LonParam(u) == Between(u, "&lon=", "&appid=")
AppidParam(u) == Between(u, "&appid=", "&units=metric")

DigitValue(c) == (CHOOSE d \in 1..10 : DigitChars[d] = c) - 1

RECURSIVE DigitsValue(_)
DigitsValue(ds) == IF ds = <<>> THEN 0
                   ELSE 10 * DigitsValue(SubSeq(ds, 1, Len(ds) - 1))
                          + DigitValue(ds[Len(ds)])

\* The coordinate a decimal numeral denotes, in units of 10^-7 degrees.
ParseDec(s) ==
  LET neg  == s # <<>> /\ s[1] = "-"
      t    == IF neg THEN Tail(s) ELSE s
      dot  == IndexOf(t, ".")
      int  == DigitsValue(SubSeq(t, 1, dot - 1))
      frac == SubSeq(t, dot + 1, Len(t))
      mag  == int * 10000000 + DigitsValue(frac) * Pow10(7 - Len(frac))
  IN IF neg THEN -mag ELSE mag

\* A decimal numeral: optional sign, digits, a point, digits.
IsDecimal(s) ==
  LET t == IF s # <<>> /\ s[1] = "-" THEN Tail(s) ELSE s
  IN /\ Has(t, ".")
     /\ IndexOf(t, ".") > 1
     /\ IndexOf(t, ".") < Len(t)
     /\ \A k \in 1..Len(t) : k # IndexOf(t, ".") => Has(DigitChars, t[k])

\* ------------------------------------------------------------ the host side
\* Argument sets the host can deliver (type LLMArguments).  Coordinates are
\* float64 values in units of 10^-7 degrees; 78125 is 2^-7, an exact tie for
\* six digits.
London   == [city |-> "London", lat |-> 515074000, lon |-> -1278000]
Nowhere  == [city |-> "Nowhere", lat |-> 910000000, lon |-> 1810000000]

\* The zero value of LLMArguments (var p LLMArguments).
ZeroArgs == [city |-> "", lat |-> 0, lon |-> 0]

\* What a tool call can carry: nothing that deserializes, or one argument set.
HostArgs == {<<>>, <<London>>}

Lats == {0, 515074000, 515074004, 515074006, 78125, 234375, -1, 900000000, 910000000}
Lons == {0, -1278000, -1278009, 1810000000}

URLArgs == {<<>>} \cup {<<[city |-> "X", lat |-> a, lon |-> o]>> : a \in Lats, o \in Lons}

InRange(a) == /\ -900000000 < a.lat /\ a.lat < 900000000
              /\ -1800000000 < a.lon /\ a.lon < 1800000000

\* Values OPENWEATHERMAP_API_KEY can hold; <<>> is unset (os.Getenv gives "").
K1 == <<"k", "1">>
K2 == <<"k", "2">>
Keys == {<<>>, K1, K2}

\* ------------------------------------------------------ the weather provider
ValidKeys == {K1}

NoResp == [status |-> 0, body |-> <<>>]

\* The provider's answer to GET u when the transport works: a rejection for a
\* key it does not know, a complaint for coordinates off the globe, else the
\* weather at the coordinates the URL names.
Answer(u) ==
  IF AppidParam(u) \notin ValidKeys
  THEN [status |-> 401, body |-> <<"{cod:401,message:Invalid API key}">>]
  ELSE IF \/ Abs(ParseDec(LatParam(u))) > 900000000
          \/ Abs(ParseDec(LonParam(u))) > 1800000000
  THEN [status |-> 400, body |-> <<"{cod:400,message:wrong coordinates}">>]
  ELSE [status |-> 200,
        body |-> <<"{coord:">> \o LatParam(u) \o <<",">> \o LonParam(u)
                   \o <<",weather:clear}">>]

\* Every response http.Get can hand back for GET u.
Responses(u) == {Answer(u), [status |-> 500, body |-> <<"Internal", "Error">>]}


\* ------------------------------------------------------------------- state
\* env     the value of OPENWEATHERMAP_API_KEY in the process environment
\* pc      where each invocation of Handler stands
\* ctx     each invocation's serverless.Context: the arguments the tool call
\*         carries and the results written back through WriteLLMResult
\* p, apiKey, url, resp, err, body, result
\*         the local variables of Handler and requestOpenWeatherMapAPI
\* trace   the effects each invocation has had, in order
Event(op, arg) == [op |-> op, arg |-> arg]

Init ==
  /\ env \in Keys
  /\ pc = [i \in Inv |-> "idle"]
  /\ ctx = [i \in Inv |-> [args |-> <<>>, written |-> <<>>]]
  /\ p = [i \in Inv |-> ZeroArgs]
  /\ apiKey = [i \in Inv |-> <<>>]
  /\ url = [i \in Inv |-> <<>>]
  /\ resp = [i \in Inv |-> NoResp]
  /\ err = [i \in Inv |-> "nil"]
  /\ body = [i \in Inv |-> <<>>]
  /\ result = [i \in Inv |-> <<>>]
  /\ trace = [i \in Inv |-> <<>>]

\* The environment variable is set, changed or unset while the process runs.
SetEnv(k) ==
  /\ k # env
  /\ env' = k
  /\ UNCHANGED <<pc, ctx, p, apiKey, url, resp, err, body, result, trace>>

\* The host receives data tagged 0x62 and calls Handler with a fresh context;
\* every local starts at its zero value.
Invoke(i, a) ==
  /\ pc[i] \in {"idle", "done"}
  /\ pc' = [pc EXCEPT ![i] = "read"]
  /\ ctx' = [ctx EXCEPT ![i] = [args |-> a, written |-> <<>>]]
  /\ p' = [p EXCEPT ![i] = ZeroArgs]
  /\ apiKey' = [apiKey EXCEPT ![i] = <<>>]
  /\ url' = [url EXCEPT ![i] = <<>>]
  /\ resp' = [resp EXCEPT ![i] = NoResp]
  /\ err' = [err EXCEPT ![i] = "nil"]
  /\ body' = [body EXCEPT ![i] = <<>>]
  /\ result' = [result EXCEPT ![i] = <<>>]
  /\ trace' = [trace EXCEPT ![i] = <<>>]
  /\ UNCHANGED env

\* Handler stops when the arguments do not deserialize.
ReadLLMArgumentsChecked(i) ==
  /\ pc[i] = "read"
  /\ p' = [p EXCEPT ![i] = IF ctx[i].args = <<>> THEN ZeroArgs ELSE ctx[i].args[1]]
  /\ pc' = [pc EXCEPT ![i] = IF ctx[i].args = <<>> THEN "done" ELSE "getenv"]
  /\ trace' = [trace EXCEPT ![i] = Append(@, Event("ReadLLMArguments",
                  IF ctx[i].args = <<>> THEN <<"error">> ELSE <<"ok">>))]
  /\ UNCHANGED <<env, ctx, apiKey, url, resp, err, body, result>>

\* ctx.ReadLLMArguments(&p): p is filled from the tool call; when nothing
\* deserializes p keeps its zero value, and the error returned is dropped.
ReadLLMArguments(i) ==
  /\ pc[i] = "read"
  /\ p' = [p EXCEPT ![i] = IF ctx[i].args = <<>> THEN ZeroArgs ELSE ctx[i].args[1]]
  /\ pc' = [pc EXCEPT ![i] = "getenv"]
  /\ trace' = [trace EXCEPT ![i] = Append(@, Event("ReadLLMArguments",
                  IF ctx[i].args = <<>> THEN <<"error">> ELSE <<"ok">>))]
  /\ UNCHANGED <<env, ctx, apiKey, url, resp, err, body, result>>

\* The key looked up under a name the environment does not hold.
GetenvWrongName == <<>>

\* os.Getenv("OPENWEATHERMAP_API_KEY"): the value the variable holds now.
Getenv == env

\* The URL with the two coordinates in each other's place.
RequestURLSwapped(lat, lon, key) == Sprintf(apiURL, <<lon, lat, key>>)

\* url := fmt.Sprintf(apiURL, lat, lon, apiKey)
RequestURL(lat, lon, key) == Sprintf(apiURL, <<lat, lon, key>>)

\* The URL kept in one variable that all invocations share.
BuildURLShared(i) ==
  /\ pc[i] = "getenv"
  /\ apiKey' = [apiKey EXCEPT ![i] = Getenv]
  /\ url' = [j \in Inv |-> RequestURL(p[i].lat, p[i].lon, Getenv)]
  /\ pc' = [pc EXCEPT ![i] = "get"]
  /\ UNCHANGED <<env, ctx, p, resp, err, body, result, trace>>

\* requestOpenWeatherMapAPI, up to the call: the key is read from the
\* environment and the URL is formatted.
BuildURL(i) ==
  /\ pc[i] = "getenv"
  /\ apiKey' = [apiKey EXCEPT ![i] = Getenv]
  /\ url' = [url EXCEPT ![i] = RequestURL(p[i].lat, p[i].lon, Getenv)]
  /\ pc' = [pc EXCEPT ![i] = "get"]
  /\ UNCHANGED <<env, ctx, p, resp, err, body, result, trace>>

\* The call skipped, with the fallback as result, for coordinates off the globe.
HttpGetValidating(i) ==
  /\ pc[i] = "get"
  /\ IF InRange(p[i])
     THEN /\ trace' = [trace EXCEPT ![i] = Append(@, Event("GET", url[i]))]
          /\ pc' = [pc EXCEPT ![i] = "wait"]
          /\ UNCHANGED result
     ELSE /\ result' = [result EXCEPT ![i] = Fallback]
          /\ pc' = [pc EXCEPT ![i] = "write"]
          /\ UNCHANGED trace
  /\ UNCHANGED <<env, ctx, p, apiKey, url, resp, err, body>>

\* The call skipped, with the fallback as result, when no key is configured.
HttpGetKeyChecked(i) ==
  /\ pc[i] = "get"
  /\ IF apiKey[i] # <<>>
     THEN /\ trace' = [trace EXCEPT ![i] = Append(@, Event("GET", url[i]))]
          /\ pc' = [pc EXCEPT ![i] = "wait"]
          /\ UNCHANGED result
     ELSE /\ result' = [result EXCEPT ![i] = Fallback]
          /\ pc' = [pc EXCEPT ![i] = "write"]
          /\ UNCHANGED trace
  /\ UNCHANGED <<env, ctx, p, apiKey, url, resp, err, body>>

\* The request sent without waiting for its outcome.
HttpGetDetached(i) ==
  /\ pc[i] = "get"
  /\ trace' = [trace EXCEPT ![i] = Append(@, Event("GET", url[i]))]
  /\ result' = [result EXCEPT ![i] = Fallback]
  /\ pc' = [pc EXCEPT ![i] = "write"]
  /\ UNCHANGED <<env, ctx, p, apiKey, url, resp, err, body>>

\* http.Get(url) sends the request; the invocation now blocks in the call.
HttpGet(i) ==
  /\ pc[i] = "get"
  /\ trace' = [trace EXCEPT ![i] = Append(@, Event("GET", url[i]))]
  /\ pc' = [pc EXCEPT ![i] = "wait"]
  /\ UNCHANGED <<env, ctx, p, apiKey, url, resp, err, body, result>>

\* http.Get returns an error: it is printed and the fallback is returned.
GetFails(i) ==
  /\ pc[i] = "wait"
  /\ err' = [err EXCEPT ![i] = "get"]
  /\ trace' = [trace EXCEPT ![i] = Append(@, Event("Println", <<"get error">>))]
  /\ result' = [result EXCEPT ![i] = Fallback]
  /\ pc' = [pc EXCEPT ![i] = "write"]
  /\ UNCHANGED <<env, ctx, p, apiKey, url, resp, body>>

\* http.Get returns a response, whatever its status code.
GetResponds(i) ==
  /\ pc[i] = "wait"
  /\ \E r \in Responses(url[i]) : resp' = [resp EXCEPT ![i] = r]
  /\ pc' = [pc EXCEPT ![i] = "readall"]
  /\ UNCHANGED <<env, ctx, p, apiKey, url, err, body, result, trace>>

Min(a, b) == IF a < b THEN a ELSE b

\* string(body): the bytes, copied.
StringOf(b) == [k \in 1..Len(b) |-> b[k]]

\* What is returned when the body is read in full, the status inspected.
SuccessResultByStatus(r, b) == IF r.status >= 400 THEN Fallback ELSE StringOf(b)

\* return string(body)
SuccessResult(r, b) == StringOf(b)

\* What is returned when the read fails, the bytes read so far kept.
ReadErrorResultPartial(b) == IF b = <<>> THEN Fallback ELSE StringOf(b)

\* return "can not get the weather information at the moment" (line 74)
ReadErrorResult(b) == Fallback

\* io.ReadAll(resp.Body) reads the whole body, ...
ReadAllOk(i) ==
  /\ pc[i] = "readall"
  /\ body' = [body EXCEPT ![i] = resp[i].body]
  /\ result' = [result EXCEPT ![i] = SuccessResult(resp[i], resp[i].body)]
  /\ pc' = [pc EXCEPT ![i] = "write"]
  /\ UNCHANGED <<env, ctx, p, apiKey, url, resp, err, trace>>

\* ... or fails after some of it: the error is printed, the fallback returned.
ReadAllFails(i) ==
  /\ pc[i] = "readall"
  /\ \E n \in 0..Min(Len(resp[i].body), MaxPartial) :
       /\ body' = [body EXCEPT ![i] = SubSeq(resp[i].body, 1, n)]
       /\ result' = [result EXCEPT ![i] = ReadErrorResult(SubSeq(resp[i].body, 1, n))]
  /\ err' = [err EXCEPT ![i] = "read"]
  /\ trace' = [trace EXCEPT ![i] = Append(@, Event("Println", <<"read error">>))]
  /\ pc' = [pc EXCEPT ![i] = "write"]
  /\ UNCHANGED <<env, ctx, p, apiKey, url, resp>>

\* ctx.WriteLLMResult(result)
WriteLLMResult(i) ==
  /\ pc[i] = "write"
  /\ ctx' = [ctx EXCEPT ![i].written = Append(@, result[i])]
  /\ trace' = [trace EXCEPT ![i] = Append(@, Event("WriteLLMResult", result[i]))]
  /\ pc' = [pc EXCEPT ![i] = "log"]
  /\ UNCHANGED <<env, p, apiKey, url, resp, err, body, result>>

\* The record slog.Info("get-weather", "city", city, "result", r) emits.
LogRecord(city, r) == <<"get-weather", "city", city, "result">> \o r

\* The log line emitted only when no error was met.
SlogInfoOnSuccess(i) ==
  /\ pc[i] = "log"
  /\ trace' = [trace EXCEPT ![i] =
                 IF err[i] = "nil"
                 THEN Append(@, Event("slog.Info", LogRecord(p[i].city, result[i])))
                 ELSE @]
  /\ pc' = [pc EXCEPT ![i] = "done"]
  /\ UNCHANGED <<env, ctx, p, apiKey, url, resp, err, body, result>>

\* slog.Info("get-weather", "city", p.City, "result", result); Handler returns.
SlogInfo(i) ==
  /\ pc[i] = "log"
  /\ trace' = [trace EXCEPT ![i] =
                 Append(@, Event("slog.Info", LogRecord(p[i].city, result[i])))]
  /\ pc' = [pc EXCEPT ![i] = "done"]
  /\ UNCHANGED <<env, ctx, p, apiKey, url, resp, err, body, result>>

\* One step of invocation i after the host has started it.
Step(i) ==
  \/ ReadLLMArguments(i)
  \/ BuildURL(i)
  \/ HttpGet(i)
  \/ GetFails(i)
  \/ GetResponds(i)
  \/ ReadAllOk(i)
  \/ ReadAllFails(i)
  \/ WriteLLMResult(i)
  \/ SlogInfo(i)

\* Invocations side by side in one process, whose environment nothing in the
\* program changes.
Next ==
  \/ \E i \in Inv : \E a \in HostArgs : Invoke(i, a)
  \/ \E i \in Inv : Step(i)

\* The process starts with the key unset or set to one the provider knows.
InitHost == Init /\ env \in {<<>>, K1}

Spec == InitHost /\ [][Next]_vars

\* One invocation after the other, over a wide range of coordinates, the host
\* process changing the environment variable at any moment.
NextSeq ==
  \/ \E k \in Keys : SetEnv(k)
  \/ \E a \in URLArgs : Invoke(1, a)
  \/ Step(1)

SpecSeq == Init /\ [][NextSeq]_vars

\* The goroutine of an invocation keeps running while it has a step to take;
\* nothing obliges the provider or the network to answer.
Running(i) ==
  \/ ReadLLMArguments(i)
  \/ BuildURL(i)
  \/ HttpGet(i)
  \/ ReadAllOk(i)
  \/ ReadAllFails(i)
  \/ WriteLLMResult(i)
  \/ SlogInfo(i)

FairSeq == SpecSeq /\ WF_vars(Running(1))


\* ------------------------------------------------------- reading the state
\* The effects of kind op that invocation i has had, in order.
Of(i, op) == LET Is(e) == e.op = op IN SelectSeq(trace[i], Is)

\* The URLs invocation i has sent a GET for.
Gets(i) == [k \in 1..Len(Of(i, "GET")) |-> Of(i, "GET")[k].arg]

\* The arguments invocation i was called with, as Handler sees them.
Delivered(i) == IF ctx[i].args = <<>> THEN ZeroArgs ELSE ctx[i].args[1]

Returned(i) == pc[i] \in {"write", "log", "done"}
Written(i) == pc[i] \in {"log", "done"}

\* --------------------------------------------------------------- the claims

\* C1: when http.Get fails, or reading the body fails (also after some bytes
\* were read), the value returned and written is exactly the fixed fallback
\* string, with nothing of the partial body, and the invocation has sent exactly
\* one GET.
C1_FallbackOnFailure ==
  \A i \in Inv :
    (Returned(i) /\ err[i] # "nil") =>
      /\ result[i] = Fallback
      /\ Len(Gets(i)) = 1
      /\ Written(i) => ctx[i].written = <<Fallback>>

\* An invocation is done whose body read failed after bytes had been read.
C1_Witness ==
  \E i \in Inv :
    /\ pc[i] = "done" /\ err[i] = "read" /\ body[i] # <<>>
    /\ ctx[i].written = <<Fallback>>

\* C2: when the call succeeds and the body is read in full, what Handler writes
\* to the host is the response body unchanged, whatever the status code.
C2_BodyVerbatim ==
  \A i \in Inv :
    (Written(i) /\ err[i] = "nil") =>
      /\ ctx[i].written = <<resp[i].body>>
      /\ body[i] = resp[i].body

\* A provider error payload (status 401) has been written as the result.
C2_Witness ==
  \E i \in Inv :
    /\ pc[i] = "done" /\ err[i] = "nil" /\ resp[i].status = 401
    /\ ctx[i].written = <<resp[i].body>>


\* The URL of invocation i has been built.
Built(i) == pc[i] \notin {"idle", "read", "getenv"}

\* The digits after the point of a decimal numeral.
Fraction(s) == SubSeq(s, IndexOf(s, ".") + 1, Len(s))

\* C3 as stated: for valid coordinates the lat and lon parameters of the URL
\* denote exactly the two values, appid is the configured key, units=metric
\* is fixed and the endpoint is the one of the provider.
C3_ExactCoordinates ==
  \A i \in Inv :
    (Built(i) /\ InRange(p[i])) =>
      /\ url[i][1] = "https://api.openweathermap.org/data/2.5/weather?lat="
      /\ ParseDec(LatParam(url[i])) = p[i].lat
      /\ ParseDec(LonParam(url[i])) = p[i].lon
      /\ AppidParam(url[i]) = apiKey[i]
      /\ url[i][Len(url[i])] = "&units=metric"

\* C3 (amended): the URL is the endpoint followed by lat, lon, appid and
\* units=metric in that order; lat and lon are decimal numerals with exactly
\* six digits after the point that denote the two values rounded to the nearest
\* millionth (exactly the value when it has no more than six decimals); appid
\* is the key read from the environment, copied as it is.
C3_RoundedCoordinates ==
  \A i \in Inv :
    Built(i) =>
      LET lat == LatParam(url[i])
          lon == LonParam(url[i])
      IN /\ url[i] = <<"https://api.openweathermap.org/data/2.5/weather?lat=">>
                       \o lat \o <<"&lon=">> \o lon \o <<"&appid=">> \o apiKey[i]
                       \o <<"&units=metric">>
         /\ IsDecimal(lat) /\ Len(Fraction(lat)) = 6
         /\ IsDecimal(lon) /\ Len(Fraction(lon)) = 6
         /\ Abs(ParseDec(lat) - p[i].lat) <= 5
         /\ Abs(ParseDec(lon) - p[i].lon) <= 5

\* A URL has been built for valid coordinates with a seventh decimal, and its
\* lat parameter denotes another value than the latitude.
C3_Witness ==
  /\ pc[1] = "done" /\ InRange(p[1])
  /\ p[1].lat % 10 # 0
  /\ ParseDec(LatParam(url[1])) # p[1].lat
  /\ LonParam(url[1]) = <<"-", "0", ".", "1", "2", "7", "8", "0", "0">>

\* C4: under every interleaving, what an invocation writes to its own context
\* is decided by its own arguments and the response to its own request alone:
\* it sends one GET, for the URL of its own coordinates, receives an answer to
\* that URL, and its context holds that answer's body (or the fallback) and
\* nothing any other invocation wrote.
C4_NoInterference ==
  \A i \in Inv :
    LET own == RequestURL(Delivered(i).lat, Delivered(i).lon, env)
    IN /\ ~Written(i) => ctx[i].written = <<>>
       /\ pc[i] \in {"wait", "readall"} \/ Returned(i) => Gets(i) = <<own>>
       /\ (pc[i] = "readall" \/ (Returned(i) /\ err[i] # "get")) =>
             resp[i] \in Responses(own)
       /\ Written(i) =>
             ctx[i].written = <<IF err[i] = "nil" THEN resp[i].body ELSE Fallback>>

\* Two invocations with different arguments are done, each with the weather at
\* its own coordinates.
C4_Witness ==
  /\ pc[1] = "done" /\ pc[2] = "done"
  /\ ctx[1].args = <<London>> /\ ctx[2].args = <<>>
  /\ resp[1].status = 200 /\ resp[2].status = 200
  /\ err[1] = "nil" /\ err[2] = "nil"
  /\ ctx[1].written # ctx[2].written

\* C5 as stated: with no key configured the request is still sent and the
\* result of the invocation is the fallback string.
C5_MissingKeyFallback ==
  \A i \in Inv :
    (Written(i) /\ apiKey[i] = <<>>) =>
      /\ Len(Gets(i)) = 1
      /\ ctx[i].written = <<Fallback>>

\* C5 (amended): with no key configured the request is still sent, with an
\* empty appid; when the provider answers it, the result is the body of that
\* answer, the rejection included, and the fallback only if the transport or
\* the reading of the body fails.
C5_MissingKeyRejectionBody ==
  \A i \in Inv :
    (Written(i) /\ apiKey[i] = <<>>) =>
      /\ Len(Gets(i)) = 1
      /\ AppidParam(Gets(i)[1]) = <<>>
      /\ err[i] = "nil" => ctx[i].written = <<resp[i].body>> /\ resp[i].body # Fallback
      /\ err[i] # "nil" => ctx[i].written = <<Fallback>>

\* With no key configured the provider has rejected the request and the
\* rejection is the result.
C5_Witness ==
  \E i \in Inv :
    /\ pc[i] = "done" /\ apiKey[i] = <<>> /\ err[i] = "nil"
    /\ resp[i].status = 401
    /\ ctx[i].written = <<<<"{cod:401,message:Invalid API key}">>>>


\* The kinds of the effects of invocation i, in order.
Ops(i) == [k \in 1..Len(trace[i]) |-> trace[i][k].op]

\* The same without the printed errors.
Calls(i) == LET NotPrint(o) == o # "Println" IN SelectSeq(Ops(i), NotPrint)

IsPrefix(s, t) == Len(s) <= Len(t) /\ SubSeq(t, 1, Len(s)) = s

\* C6: an invocation that is over has written exactly one result, the body of
\* the response or the fallback string, whatever failed on the way (the
\* arguments not deserializing, the transport, the reading of the body); an
\* invocation never ends without a written result.
C6_OneResultAlways ==
  \A i \in Inv :
    /\ Len(ctx[i].written) <= 1
    /\ pc[i] = "done" =>
         /\ Len(ctx[i].written) = 1
         /\ Len(Of(i, "WriteLLMResult")) = 1
         /\ ctx[i].written[1] \in {Fallback, resp[i].body}
         /\ ctx[i].written[1] = Fallback <=> err[i] # "nil"

\* An invocation whose arguments did not deserialize is over, its result
\* written.
C6_Witness ==
  \E i \in Inv :
    /\ pc[i] = "done" /\ ctx[i].args = <<>>
    /\ Of(i, "ReadLLMArguments")[1].arg = <<"error">>
    /\ Len(ctx[i].written) = 1

\* C7 as stated: an invocation that succeeds emits one log record with the
\* city and the result; one that fails prints the error and emits no log
\* record.
C7_NoLogOnFailure ==
  \A i \in Inv :
    pc[i] = "done" =>
      /\ err[i] = "nil" =>
           Of(i, "slog.Info") = <<Event("slog.Info", LogRecord(p[i].city, result[i]))>>
      /\ err[i] # "nil" =>
           /\ Len(Of(i, "Println")) = 1
           /\ Of(i, "slog.Info") = <<>>

\* C7 (amended): every invocation that is over has emitted exactly one log
\* record, as its last effect, with the city and the result, on the failure
\* path too (the result then being the fallback string); on the failure path
\* the error was printed once before it, on the success path nothing was
\* printed.
C7_OneLogRecordAlways ==
  \A i \in Inv :
    /\ pc[i] # "done" => Of(i, "slog.Info") = <<>>
    /\ pc[i] = "done" =>
         /\ Of(i, "slog.Info") = <<Event("slog.Info", LogRecord(p[i].city, result[i]))>>
         /\ trace[i][Len(trace[i])].op = "slog.Info"
         /\ Len(Of(i, "Println")) = (IF err[i] = "nil" THEN 0 ELSE 1)
         /\ err[i] # "nil" => result[i] = Fallback

\* An invocation that failed is over and has logged the city with the
\* fallback string.
C7_Witness ==
  \E i \in Inv :
    /\ pc[i] = "done" /\ err[i] = "get" /\ p[i].city = "London"
    /\ Of(i, "slog.Info")
         = <<Event("slog.Info", <<"get-weather", "city", "London", "result">> \o Fallback)>>

\* C8: the key is read from the environment in every invocation: the URL an
\* invocation builds carries the value the variable holds when the invocation
\* reads it, whatever it held during earlier invocations, and that URL is the
\* one the GET is sent for.
C8_KeyReadFresh ==
  [][\A i \in Inv :
       /\ (pc[i] = "getenv" /\ pc'[i] # "getenv") =>
            AppidParam(url'[i]) = env /\ apiKey'[i] = env
       /\ (pc[i] = "get" /\ pc'[i] # "get") =>
            Len(Gets(i)') = 1 /\ AppidParam(Gets(i)'[1]) = apiKey[i]]_vars

\* A request carries the key that was set when its invocation read it, and
\* the variable has been unset since.
C8_Witness ==
  /\ pc[1] = "done" /\ env = <<>>
  /\ AppidParam(Gets(1)[1]) = K2

\* C9: no range is enforced: whatever coordinates the host delivers, off the
\* globe or the zero values of arguments that did not deserialize, Handler has
\* them as they are, sends the GET for them and writes a result.
C9_NoRangeCheck ==
  \A i \in Inv :
    /\ pc[i] \notin {"idle", "read"} => p[i] = Delivered(i)
    /\ (pc[i] \in {"wait", "readall"} \/ Returned(i)) =>
          Gets(i) = <<RequestURL(Delivered(i).lat, Delivered(i).lon, apiKey[i])>>
    /\ pc[i] = "done" => Len(ctx[i].written) = 1

\* An invocation with coordinates off the globe is over: the GET was sent
\* with them and the provider's answer is the result.
C9_Witness ==
  /\ pc[1] = "done" /\ p[1].lat = 910000000 /\ p[1].lon = 1810000000
  /\ LatParam(Gets(1)[1]) = <<"9", "1", ".", "0", "0", "0", "0", "0", "0">>
  /\ resp[1].status = 400 /\ ctx[1].written = <<resp[1].body>>

====
